---------------------------- MODULE Spec2Model ----------------------------
(***************************************************************************)
(* Model of factorio_data.py: the binary codec of mod-settings.dat         *)
(* (ImmutableString, PropertyTree, ModSettings), the JSON converter        *)
(* (JSONEncoder, JSONDecoder) and the command line driver main().          *)
(*                                                                         *)
(* Python values are records tagged with their class in the field cls, so  *)
(* that isinstance() is a test of cls:                                     *)
(*   None   [cls |-> "NoneType"]          bool  [cls |-> "bool", b |-> B]  *)
(*   int    [cls |-> "int", i |-> n]      float [cls |-> "float", bits |-> *)
(*   str    [cls |-> "str", cps |-> code points]   8 IEEE-754 bytes, LE]  *)
(*   bytes  [cls |-> "bytes", bs |-> bytes]                                *)
(*   list   [cls |-> "list", items |-> items]                              *)
(*   dict   [cls |-> "dict", pairs |-> <<key, value>>, insertion order]    *)
(* and the three classes of the program carry their attributes.  A byte    *)
(* stream is a sequence of 0..255; a read position is the number of bytes  *)
(* consumed so far.                                                        *)
(***************************************************************************)
EXTENDS Integers, Sequences, FiniteSets, TLC

VARIABLES
    infile,        \* main: args.input, [ext, content]
    mod_settings,  \* main: the value held after the load step
    outfile,       \* main: what was written to args.output, [ext, content]
    exc,           \* name of the exception that ended the run, "" if none
    tell,          \* position of the input stream when the load step ended
    pc,            \* position of the run
    prev,          \* what the previous run loaded and read
    runs           \* number of runs of the converter so far

vars == <<infile, mod_settings, outfile, exc, tell, pc, prev, runs>>

(***************************************************************************)
(* Bounds of the model.                                                    *)
(***************************************************************************)
\* longest body (the bytes after the 9 header bytes) of a generated document
MaxBody == 12
\* longest array of a generated JSON text
MaxElems == 2
\* runs of the converter chained on each other's output
MaxRuns == 2
\* longest string of the string specification
MaxStrLen == 257
\* most children of a List or Dictionary of the save-then-load specification
MaxItems == 2

\* the length byte that announces a 4-byte length
LenEscape == 255

Min(a, b) == IF a < b THEN a ELSE b

(***************************************************************************)
(* Python values.                                                          *)
(***************************************************************************)
None == [cls |-> "NoneType"]
PyBool(b) == [cls |-> "bool", b |-> b]
PyInt(i) == [cls |-> "int", i |-> i]
PyFloat(bits) == [cls |-> "float", bits |-> bits]
PyStr(cps) == [cls |-> "str", cps |-> cps]
PyBytes(bs) == [cls |-> "bytes", bs |-> bs]
PyList(items) == [cls |-> "list", items |-> items]
PyDict(pairs) == [cls |-> "dict", pairs |-> pairs]

\* what an operation hands back: a value and a stream position, or an exception
Ret(v, pos) == [ok |-> TRUE, v |-> v, pos |-> pos, exc |-> ""]
Raise(e, pos) == [ok |-> FALSE, v |-> None, pos |-> pos, exc |-> e]

\* ImmutableString.__init__
ImmutableString(value) == [cls |-> "ImmutableString", value |-> value]

\* PropertyTree.__init__; key None becomes ImmutableString(None)
PropertyTree(key, value, type, any_type) ==
    [cls |-> "PropertyTree",
     key |-> IF key = None THEN ImmutableString(None) ELSE key,
     value |-> value, type |-> type, any_type |-> any_type]

\* ModSettings.__init__
ModSettings(data, version, has_quality) ==
    [cls |-> "ModSettings", data |-> data, version |-> version,
     has_quality |-> has_quality]

\* PropertyTree.Type: the enum's members by value, and back
TypeNames == <<"Null", "Bool", "Number", "String", "List", "Dictionary">>
TypeOfRaw(raw) == TypeNames[raw + 1]
TypeValue(name) == CHOOSE i \in 0..5 : TypeNames[i + 1] = name

(***************************************************************************)
(* struct and stream primitives.                                           *)
(***************************************************************************)
\* stream.read(n) at position pos: up to n bytes, fewer at the end of stream
Read(s, pos, n) == SubSeq(s, pos + 1, Min(pos + n, Len(s)))

\* struct.pack / struct.unpack of little-endian unsigned integers
PackU16(n) == <<n % 256, (n \div 256) % 256>>
PackU32(n) == <<n % 256, (n \div 256) % 256, (n \div 65536) % 256,
                (n \div 16777216) % 256>>
UnpackU16(b) == b[1] + 256 * b[2]
UnpackU32(b) == b[1] + 256 * b[2] + 65536 * b[3] + 16777216 * b[4]

\* bool(x) of a byte, and a bool packed with "<B"
BoolOfByte(b) == b # 0
ByteOfBool(b) == IF b THEN 1 ELSE 0

(***************************************************************************)
(* ImmutableString.                                                        *)
(***************************************************************************)
\* ImmutableString.load(stream) at position pos
ImmutableString_load(s, pos) ==
    LET is_none == Read(s, pos, 1) IN
    IF Len(is_none) # 1 THEN Raise("struct.error", pos + Len(is_none))
    ELSE IF BoolOfByte(is_none[1]) THEN Ret(ImmutableString(None), pos + 1)
    ELSE
      LET len1 == Read(s, pos + 1, 1) IN
      IF Len(len1) # 1 THEN Raise("struct.error", pos + 1 + Len(len1))
      ELSE IF len1[1] = LenEscape THEN
        LET len4 == Read(s, pos + 2, 4) IN
        IF Len(len4) # 4 THEN Raise("struct.error", pos + 2 + Len(len4))
        ELSE LET value == Read(s, pos + 6, UnpackU32(len4)) IN
             Ret(ImmutableString(PyBytes(value)), pos + 6 + Len(value))
      ELSE LET value == Read(s, pos + 2, len1[1]) IN
           Ret(ImmutableString(PyBytes(value)), pos + 2 + Len(value))

\* a slip in the comparison of save: a length of exactly 0xff written in one byte
ImmutableString_save_gt(self) ==
    IF self.value = None THEN <<1>>
    ELSE LET value == self.value.bs IN
         <<0>> \o (IF Len(value) > LenEscape
                   THEN <<LenEscape>> \o PackU32(Len(value))
                   ELSE <<Len(value)>>) \o value

\* ImmutableString.save(stream): the bytes it writes
ImmutableString_save(self) ==
    IF self.value = None THEN <<1>>
    ELSE LET value == self.value.bs IN
         <<0>> \o (IF Len(value) >= LenEscape
                   THEN <<LenEscape>> \o PackU32(Len(value))
                   ELSE <<Len(value)>>) \o value

\* what a save hands back: the bytes written, and the exception that cut it short
Wrote(bytes) == [ok |-> TRUE, v |-> bytes, exc |-> ""]
WriteFailed(e, bytes) == [ok |-> FALSE, v |-> bytes, exc |-> e]

(***************************************************************************)
(* PropertyTree.                                                           *)
(***************************************************************************)
RECURSIVE PropertyTree_load(_, _)
RECURSIVE LoadItems(_, _, _, _)

\* a slip in the loop of load: the entry's key is read and not given to the item
LoadItems_nokey(s, pos, count, value) ==
    IF count = 0 THEN Ret(PyList(value), pos)
    ELSE LET key == ImmutableString_load(s, pos) IN
         IF ~key.ok THEN key
         ELSE LET item == PropertyTree_load(s, key.pos) IN
              IF ~item.ok THEN item
              ELSE LoadItems(s, item.pos, count - 1, Append(value, item.v))

\* the loop of PropertyTree.load over the count entries of a List or Dictionary
LoadItems(s, pos, count, value) ==
    IF count = 0 THEN Ret(PyList(value), pos)
    ELSE LET key == ImmutableString_load(s, pos) IN
         IF ~key.ok THEN key
         ELSE LET item == PropertyTree_load(s, key.pos) IN
              IF ~item.ok THEN item
              ELSE LoadItems(s, item.pos, count - 1,
                             Append(value, [item.v EXCEPT !.key = key.v]))

\* the payload of PropertyTree.load, by type
LoadPayload(s, pos, type) ==
    CASE type = "Null" -> Ret(None, pos)
      [] type = "Bool" ->
           LET b == Read(s, pos, 1) IN
           IF Len(b) # 1 THEN Raise("struct.error", pos + Len(b))
           ELSE Ret(PyBool(BoolOfByte(b[1])), pos + 1)
      [] type = "Number" ->
           LET d == Read(s, pos, 8) IN
           IF Len(d) # 8 THEN Raise("struct.error", pos + Len(d))
           ELSE Ret(PyFloat(d), pos + 8)
      [] type = "String" -> ImmutableString_load(s, pos)
      [] type \in {"List", "Dictionary"} ->
           LET c == Read(s, pos, 4) IN
           IF Len(c) # 4 THEN Raise("struct.error", pos + Len(c))
           ELSE LoadItems(s, pos + 4, UnpackU32(c), <<>>)

\* PropertyTree.load(stream) at position pos
PropertyTree_load(s, pos) ==
    LET head == Read(s, pos, 2) IN
    IF Len(head) # 2 THEN Raise("struct.error", pos + Len(head))
    ELSE IF head[1] > 5 THEN Raise("ValueError", pos + 2)
    ELSE LET value_type == TypeOfRaw(head[1])
             value == LoadPayload(s, pos + 2, value_type) IN
         IF ~value.ok THEN value
         ELSE Ret(PropertyTree(None, value.v, value_type, BoolOfByte(head[2])),
                  value.pos)

RECURSIVE PropertyTree_save(_)
RECURSIVE SaveItems(_, _)

\* the loop of PropertyTree.save over the children, after the bytes in out
SaveItems(items, out) ==
    IF items = <<>> THEN Wrote(out)
    ELSE LET item == Head(items) IN
         IF item.cls # "PropertyTree" THEN WriteFailed("AttributeError", out)
         ELSE LET body == PropertyTree_save(item)
                  sofar == out \o ImmutableString_save(item.key) \o body.v IN
              IF ~body.ok THEN WriteFailed(body.exc, sofar)
              ELSE SaveItems(Tail(items), sofar)

\* PropertyTree.save(stream): the bytes it writes
PropertyTree_save(self) ==
    LET head == <<TypeValue(self.type), ByteOfBool(self.any_type)>> IN
    CASE self.type = "Null" -> Wrote(head)
      [] self.type = "Bool" -> Wrote(head \o <<ByteOfBool(self.value.b)>>)
      [] self.type = "Number" -> Wrote(head \o self.value.bits)
      [] self.type = "String" -> Wrote(head \o ImmutableString_save(self.value))
      [] self.type \in {"List", "Dictionary"} ->
           SaveItems(self.value.items, head \o PackU32(Len(self.value.items)))

(***************************************************************************)
(* ModSettings.                                                            *)
(***************************************************************************)
\* the tuple comparison a < b of Python on tuples of int
RECURSIVE TupleLess(_, _)
TupleLess(a, b) ==
    IF b = <<>> THEN FALSE
    ELSE IF a = <<>> THEN TRUE
    ELSE IF Head(a).i # Head(b).i THEN Head(a).i < Head(b).i
    ELSE TupleLess(Tail(a), Tail(b))

\* the lowest version load accepts
MinVersion == <<PyInt(0), PyInt(18), PyInt(0), PyInt(0)>>

\* a slip in the version test of load: only the first component is compared
VersionTooLow_major(version) == version[1].i < MinVersion[1].i

\* the test of ModSettings.load: version < (0, 18, 0, 0)
VersionTooLow(version) == TupleLess(version, MinVersion)

\* ModSettings.load(stream) of a stream at its start
ModSettings_load(s) ==
    LET v == Read(s, 0, 8) IN
    IF Len(v) # 8 THEN Raise("struct.error", Len(v))
    ELSE
      LET version == <<PyInt(UnpackU16(SubSeq(v, 1, 2))),
                       PyInt(UnpackU16(SubSeq(v, 3, 4))),
                       PyInt(UnpackU16(SubSeq(v, 5, 6))),
                       PyInt(UnpackU16(SubSeq(v, 7, 8)))>>
          has_quality == Read(s, 8, 1) IN
      IF Len(has_quality) # 1 THEN Raise("struct.error", 8)
      ELSE LET data == PropertyTree_load(s, 9) IN
           IF ~data.ok THEN data
           ELSE IF VersionTooLow(version)
                THEN Raise("Exception: settings version too low", data.pos)
                ELSE Ret(ModSettings(data.v, version,
                                     PyBool(BoolOfByte(has_quality[1]))),
                         data.pos)

\* struct.pack("<HHHH", *version) and struct.pack("<B", has_quality)
PackVersion(version) ==
    IF Len(version) = 4
       /\ \A i \in 1..4 : version[i].cls = "int" /\ version[i].i \in 0..65535
    THEN Wrote(PackU16(version[1].i) \o PackU16(version[2].i)
               \o PackU16(version[3].i) \o PackU16(version[4].i))
    ELSE WriteFailed("struct.error", <<>>)
PackFlag(x) ==
    IF x.cls = "bool" THEN Wrote(<<ByteOfBool(x.b)>>)
    ELSE IF x.cls = "int" /\ x.i \in 0..255 THEN Wrote(<<x.i>>)
    ELSE WriteFailed("struct.error", <<>>)

\* a slip in save: the has_quality byte is left out
RECURSIVE ModSettings_save(_)
ModSettings_save_noflag(self) ==
    LET version == PackVersion(self.version) IN
    IF ~version.ok THEN version
    ELSE IF self.data.cls \notin {"PropertyTree", "ModSettings"}
         THEN WriteFailed("AttributeError", version.v)
         ELSE LET data == IF self.data.cls = "PropertyTree"
                          THEN PropertyTree_save(self.data)
                          ELSE ModSettings_save(self.data) IN
              [data EXCEPT !.v = version.v \o data.v]

\* ModSettings.save(stream): the bytes it writes
ModSettings_save(self) ==
    LET version == PackVersion(self.version) IN
    IF ~version.ok THEN version
    ELSE LET has_quality == PackFlag(self.has_quality) IN
         IF ~has_quality.ok THEN WriteFailed(has_quality.exc, version.v)
         ELSE IF self.data.cls \notin {"PropertyTree", "ModSettings"}
              THEN WriteFailed("AttributeError", version.v \o has_quality.v)
              ELSE LET data == IF self.data.cls = "PropertyTree"
                               THEN PropertyTree_save(self.data)
                               ELSE ModSettings_save(self.data) IN
                   [data EXCEPT !.v = version.v \o has_quality.v \o data.v]

(***************************************************************************)
(* UTF-8: bytes.decode() and str.encode().                                 *)
(***************************************************************************)
IsCont(b) == b \in 128..191

\* the first character of a non-empty byte string: its length in bytes (0 when
\* the bytes are not UTF-8) and its code point
Utf8First(b) ==
    LET b1 == b[1] IN
    IF b1 < 128 THEN [n |-> 1, cp |-> b1]
    ELSE IF b1 \in 194..223 THEN
        IF Len(b) >= 2 /\ IsCont(b[2])
        THEN [n |-> 2, cp |-> (b1 - 192) * 64 + (b[2] - 128)]
        ELSE [n |-> 0, cp |-> 0]
    ELSE IF b1 \in 224..239 THEN
        IF Len(b) >= 3 /\ IsCont(b[2]) /\ IsCont(b[3])
           /\ (b1 = 224 => b[2] >= 160) /\ (b1 = 237 => b[2] <= 159)
        THEN [n |-> 3,
              cp |-> (b1 - 224) * 4096 + (b[2] - 128) * 64 + (b[3] - 128)]
        ELSE [n |-> 0, cp |-> 0]
    ELSE IF b1 \in 240..244 THEN
        IF Len(b) >= 4 /\ IsCont(b[2]) /\ IsCont(b[3]) /\ IsCont(b[4])
           /\ (b1 = 240 => b[2] >= 144) /\ (b1 = 244 => b[2] <= 143)
        THEN [n |-> 4,
              cp |-> (b1 - 240) * 262144 + (b[2] - 128) * 4096
                     + (b[3] - 128) * 64 + (b[4] - 128)]
        ELSE [n |-> 0, cp |-> 0]
    ELSE [n |-> 0, cp |-> 0]

\* bytes.decode(): the str, or UnicodeDecodeError
RECURSIVE Utf8Decode(_, _)
Utf8Decode(b, cps) ==
    IF b = <<>> THEN Ret(PyStr(cps), 0)
    ELSE LET c == Utf8First(b) IN
         IF c.n = 0 THEN Raise("UnicodeDecodeError", 0)
         ELSE Utf8Decode(SubSeq(b, c.n + 1, Len(b)), Append(cps, c.cp))

\* str.encode() of one code point (surrogates excluded), and of a str
Utf8Char(cp) ==
    IF cp < 128 THEN <<cp>>
    ELSE IF cp < 2048 THEN <<192 + (cp \div 64), 128 + (cp % 64)>>
    ELSE IF cp < 65536
         THEN <<224 + (cp \div 4096), 128 + ((cp \div 64) % 64), 128 + (cp % 64)>>
         ELSE <<240 + (cp \div 262144), 128 + ((cp \div 4096) % 64),
                128 + ((cp \div 64) % 64), 128 + (cp % 64)>>
RECURSIVE Utf8Encode(_)
Utf8Encode(cps) ==
    IF cps = <<>> THEN <<>> ELSE Utf8Char(Head(cps)) \o Utf8Encode(Tail(cps))

(***************************************************************************)
(* dict: pairs <<key, value>> in insertion order, keys unique.             *)
(***************************************************************************)
DictHas(d, k) == \E i \in 1..Len(d.pairs) : d.pairs[i][1] = k
DictGet(d, k) == d.pairs[CHOOSE i \in 1..Len(d.pairs) : d.pairs[i][1] = k][2]
\* d[k] = x: a key already present keeps its place and takes the new value
DictSet(d, k, x) ==
    IF DictHas(d, k)
    THEN PyDict([i \in 1..Len(d.pairs) |-> IF d.pairs[i][1] = k THEN <<k, x>> ELSE d.pairs[i]])
    ELSE PyDict(Append(d.pairs, <<k, x>>))

\* the field names of the envelope, as str
S_type == PyStr(<<33, 116, 121, 112, 101>>)
S_ModSettings == PyStr(<<77, 111, 100, 83, 101, 116, 116, 105, 110, 103, 115>>)
S_version == PyStr(<<118, 101, 114, 115, 105, 111, 110>>)
S_has_quality == PyStr(<<104, 97, 115, 95, 113, 117, 97, 108, 105, 116, 121>>)
S_data == PyStr(<<100, 97, 116, 97>>)

(***************************************************************************)
(* JSONEncoder and json.dumps.  A JSON text is held as the value it        *)
(* denotes: null, a boolean, an integer literal, a float literal, a        *)
(* string, an array or an object.                                          *)
(***************************************************************************)
\* the comprehension {item.key.value.decode(): item for item in obj.value}
RECURSIVE DictOfItems(_, _)
DictOfItems(items, d) ==
    IF items = <<>> THEN Ret(d, 0)
    ELSE LET item == Head(items) IN
         IF item.cls # "PropertyTree" THEN Raise("AttributeError", 0)
         ELSE IF item.key.value = None THEN Raise("AttributeError", 0)
         ELSE LET k == Utf8Decode(item.key.value.bs, <<>>) IN
              IF ~k.ok THEN k
              ELSE DictOfItems(Tail(items), DictSet(d, k.v, item))

\* JSONEncoder.default(obj)
JSONEncoder_default(obj) ==
    CASE obj.cls = "ImmutableString" ->
           IF obj.value = None THEN Ret(None, 0)
           ELSE Utf8Decode(obj.value.bs, <<>>)
      [] obj.cls = "PropertyTree" ->
           (CASE obj.type = "Null" -> Ret(None, 0)
              [] obj.type \in {"Bool", "Number", "String"} -> Ret(obj.value, 0)
              [] obj.type = "List" -> Ret(PyList(obj.value.items), 0)
              [] obj.type = "Dictionary" -> DictOfItems(obj.value.items, PyDict(<<>>)))
      [] obj.cls = "ModSettings" ->
           Ret(PyDict(<< <<S_type, S_ModSettings>>,
                         <<S_version, [cls |-> "tuple", elems |-> obj.version]>>,
                         <<S_has_quality, obj.has_quality>>,
                         <<S_data, obj.data>> >>), 0)
      [] OTHER -> Raise("TypeError", 0)

\* a float written by float.__repr__ and read back: every NaN reads back as
\* the one quiet NaN, every other value as itself
IsNaN(bits) ==
    /\ bits[8] % 128 = 127 /\ bits[7] >= 240
    /\ (bits[7] % 16 # 0 \/ \E i \in 1..6 : bits[i] # 0)
FloatText(bits) == IF IsNaN(bits) THEN <<0, 0, 0, 0, 0, 0, 248, 127>> ELSE bits

\* json.dumps(obj, cls=JSONEncoder): the JSON text, or the exception
RECURSIVE Dumps(_)
RECURSIVE DumpsItems(_, _)
RECURSIVE DumpsPairs(_, _)
DumpsItems(items, out) ==
    IF items = <<>> THEN Ret(PyList(out), 0)
    ELSE LET x == Dumps(Head(items)) IN
         IF ~x.ok THEN x ELSE DumpsItems(Tail(items), Append(out, x.v))
DumpsPairs(pairs, out) ==
    IF pairs = <<>> THEN Ret(PyDict(out), 0)
    ELSE LET x == Dumps(Head(pairs)[2]) IN
         IF ~x.ok THEN x
         ELSE DumpsPairs(Tail(pairs), Append(out, <<Head(pairs)[1], x.v>>))
Dumps(obj) ==
    CASE obj.cls \in {"NoneType", "bool", "int", "str"} -> Ret(obj, 0)
      [] obj.cls = "float" -> Ret(PyFloat(FloatText(obj.bits)), 0)
      [] obj.cls = "list" -> DumpsItems(obj.items, <<>>)
      [] obj.cls = "tuple" -> DumpsItems(obj.elems, <<>>)
      [] obj.cls = "dict" -> DumpsPairs(obj.pairs, <<>>)
      [] OTHER -> LET d == JSONEncoder_default(obj) IN
                  IF ~d.ok THEN d ELSE Dumps(d.v)

(***************************************************************************)
(* JSONDecoder and json.loads.                                             *)
(***************************************************************************)
\* (*x,): the tuple of an iterable
TupleOf(x) ==
    CASE x.cls = "list" -> Ret(x.items, 0)
      [] x.cls = "str" -> Ret([i \in 1..Len(x.cps) |-> PyStr(<<x.cps[i]>>)], 0)
      [] OTHER -> Raise("TypeError", 0)

RECURSIVE JSONDecoder_object_hook(_)
RECURSIVE HookItems(_, _)

\* the loop of object_hook over obj.items()
HookItems(pairs, items) ==
    IF pairs = <<>> THEN Ret(PropertyTree(None, PyList(items), "Dictionary", FALSE), 0)
    ELSE LET item == JSONDecoder_object_hook(Head(pairs)[2]) IN
         IF ~item.ok THEN item
         ELSE HookItems(Tail(pairs),
                Append(items,
                  [item.v EXCEPT !.key =
                     ImmutableString(PyBytes(Utf8Encode(Head(pairs)[1].cps)))]))

\* the branch of object_hook for a dict that carries "!type"
HookTagged(obj) ==
    LET tag == DictGet(obj, S_type) IN
    IF tag.cls \in {"PropertyTree", "ModSettings"}
    THEN Raise("AttributeError", 0)      \* their __eq__ reads fields of the str
    ELSE IF tag = S_ModSettings THEN
        IF ~DictHas(obj, S_data) \/ ~DictHas(obj, S_version) THEN Raise("KeyError", 0)
        ELSE LET version == TupleOf(DictGet(obj, S_version)) IN
             IF ~version.ok THEN version
             ELSE IF ~DictHas(obj, S_has_quality) THEN Raise("KeyError", 0)
             ELSE Ret(ModSettings(DictGet(obj, S_data), version.v,
                                  DictGet(obj, S_has_quality)), 0)
    ELSE Raise("Exception: Unknown object type", 0)

\* JSONDecoder.object_hook(obj)
JSONDecoder_object_hook(obj) ==
    CASE obj.cls = "NoneType" -> Ret(PropertyTree(None, None, "Null", FALSE), 0)
      [] obj.cls = "bool" -> Ret(PropertyTree(None, obj, "Bool", FALSE), 0)
      [] obj.cls = "float" -> Ret(PropertyTree(None, obj, "Number", FALSE), 0)
      [] obj.cls = "str" ->
           Ret(PropertyTree(None, ImmutableString(PyBytes(Utf8Encode(obj.cps))),
                            "String", FALSE), 0)
      [] obj.cls = "list" -> Ret(PropertyTree(None, obj, "List", FALSE), 0)
      [] obj.cls = "dict" ->
           IF DictHas(obj, S_type) THEN HookTagged(obj) ELSE HookItems(obj.pairs, <<>>)
      [] obj.cls = "PropertyTree" -> Ret(obj, 0)
      [] OTHER -> Raise("NotImplementedError", 0)

\* json.loads(text, cls=JSONDecoder): the parser hands every object, innermost
\* first, to object_hook and every other value on as it is
RECURSIVE Loads(_)
RECURSIVE LoadsItems(_, _)
RECURSIVE LoadsPairs(_, _)
LoadsItems(items, out) ==
    IF items = <<>> THEN Ret(PyList(out), 0)
    ELSE LET x == Loads(Head(items)) IN
         IF ~x.ok THEN x ELSE LoadsItems(Tail(items), Append(out, x.v))
LoadsPairs(pairs, out) ==
    IF pairs = <<>> THEN JSONDecoder_object_hook(PyDict(out))
    ELSE LET x == Loads(Head(pairs)[2]) IN
         IF ~x.ok THEN x
         ELSE LoadsPairs(Tail(pairs), Append(out, <<Head(pairs)[1], x.v>>))
Loads(j) ==
    CASE j.cls = "list" -> LoadsItems(j.items, <<>>)
      [] j.cls = "dict" -> LoadsPairs(j.pairs, <<>>)
      [] OTHER -> Ret(j, 0)

\* obj.save(stream), for whatever obj the load step produced
Save(obj) ==
    CASE obj.cls = "ModSettings" -> ModSettings_save(obj)
      [] obj.cls = "PropertyTree" -> PropertyTree_save(obj)
      [] OTHER -> WriteFailed("AttributeError", <<>>)

(***************************************************************************)
(* The inputs of the model.                                                *)
(***************************************************************************)
\* 5.0, and a NaN that carries a payload, as IEEE-754 doubles
Float5 == <<0, 0, 0, 0, 0, 0, 20, 64>>
FloatNaN == <<1, 0, 0, 0, 0, 0, 248, 127>>

\* the values a flag byte takes in a document: false, true, and another nonzero
FlagBytes == {0, 1, 2}

\* versions on both sides of (0, 18, 0, 0)
Versions == {<<0, 17, 99, 0>>, <<0, 18, 0, 0>>, <<1, 1, 110, 0>>}

Header(version, flag) ==
    PackU16(version[1]) \o PackU16(version[2]) \o PackU16(version[3])
    \o PackU16(version[4]) \o <<flag>>

\* strings as a document may hold them: null under either flag value, empty,
\* one ASCII byte, one byte that is not UTF-8, and the 4-byte length form
RawStrings ==
    {<<1>>, <<2>>, <<0, 0>>, <<0, 1, 97>>, <<0, 1, 255>>,
     <<0, LenEscape, 1, 0, 0, 0, 97>>}

\* nodes without children, type tag 6 (no such type) among them
RawLeaves ==
    UNION {
      {<<0, a>>, <<6, a>>, <<2, a>> \o Float5, <<2, a>> \o FloatNaN}
      \cup {<<1, a, b>> : b \in FlagBytes}
      \cup {<<3, a>> \o s : s \in RawStrings}
      : a \in FlagBytes}

\* every node, and every run of count entries, that takes at most n bytes
RECURSIVE RawNodes(_)
RECURSIVE RawEntries(_, _)
RawEntries(count, n) ==
    IF count = 0 THEN {<<>>}
    ELSE UNION { UNION { {k \o x \o rest : rest \in RawEntries(count - 1, n - Len(k) - Len(x))}
                         : x \in RawNodes(n - Len(k) - 3 * (count - 1)) }
                 : k \in {s \in RawStrings : Len(s) + 2 + 3 * (count - 1) <= n} }
RawNodes(n) ==
    {x \in RawLeaves : Len(x) <= n}
    \cup (IF n < 6 THEN {}
          ELSE UNION { {<<t, a>> \o PackU32(count) \o body :
                           t \in {4, 5}, a \in FlagBytes,
                           body \in RawEntries(count, n - 6)}
                       : count \in 0..((n - 6) \div 3) })

Prefixes(S) == UNION { {SubSeq(d, 1, k) : k \in 0..Len(d)} : d \in S }

\* the .dat inputs: every document body of at most MaxBody bytes, whole, cut
\* short at every length and followed by one more byte, under every header;
\* and a header cut short
DatInputs ==
    LET whole == RawNodes(MaxBody)
        bodies == Prefixes(whole) \cup {d \o <<0>> : d \in whole} IN
    {Header(v, f) \o b : v \in Versions, f \in FlagBytes, b \in bodies}
    \cup {SubSeq(Header(<<1, 1, 110, 0>>, 0), 1, k) : k \in 0..8}

\* JSON texts
Str_a == PyStr(<<97>>)
Str_b == PyStr(<<98>>)
Envelope(version, has_quality, data) ==
    PyDict(<< <<S_type, S_ModSettings>>,
              <<S_version, PyList([i \in 1..4 |-> PyInt(version[i])])>>,
              <<S_has_quality, has_quality>>,
              <<S_data, data>> >>)
JScalars ==
    {None, PyBool(TRUE), PyInt(5), PyFloat(Float5), Str_a, PyStr(<<233>>)}
JElems ==
    JScalars
    \cup {PyList(<<>>), PyList(<<PyFloat(Float5)>>),
          PyDict(<<>>), PyDict(<< <<Str_a, PyBool(TRUE)>> >>),
          Envelope(<<1, 1, 110, 0>>, PyBool(FALSE), PyDict(<<>>)),
          PyDict(<< <<S_type, S_ModSettings>> >>),
          PyDict(<< <<S_type, Str_a>> >>)}
RECURSIVE SeqsUpTo(_, _)
SeqsUpTo(S, n) ==
    IF n = 0 THEN {<<>>}
    ELSE LET shorter == SeqsUpTo(S, n - 1) IN
         shorter \cup {Append(s, x) : s \in {q \in shorter : Len(q) = n - 1}, x \in S}
JValues ==
    JElems \cup {PyList(s) : s \in SeqsUpTo(JElems, MaxElems)}
    \cup {PyDict(<< <<Str_a, e>> >>) : e \in JElems}
JData ==
    JValues \cup {PyDict(<< <<Str_a, x>> >>) : x \in JValues}
    \cup {PyDict(<< <<Str_b, x>>, <<Str_a, y>> >>) : x \in JScalars, y \in JScalars}
JsonInputs ==
    JData \cup {Envelope(v, PyBool(q), d) :
                  v \in Versions, q \in BOOLEAN, d \in JData}

(***************************************************************************)
(* main(): one run of the converter reads infile, by its extension, and    *)
(* writes outfile, as .dat or as .json; the next run may read what this    *)
(* one wrote (as selftest does with its JSON text).                        *)
(***************************************************************************)
DatFile(bytes) == [ext |-> "dat", bytes |-> bytes]
JsonFile(text) == [ext |-> "json", text |-> text]

Init ==
    /\ infile \in {DatFile(d) : d \in DatInputs} \cup {JsonFile(j) : j \in JsonInputs}
    /\ mod_settings = None
    /\ outfile = None
    /\ exc = ""
    /\ tell = 0
    /\ pc = "start"
    /\ prev = None
    /\ runs = 1

\* mod_settings = ModSettings.load(args.input)
LoadDat ==
    /\ pc = "start" /\ infile.ext = "dat"
    /\ LET r == ModSettings_load(infile.bytes) IN
       /\ mod_settings' = r.v
       /\ exc' = r.exc
       /\ tell' = r.pos
       /\ pc' = IF r.ok THEN "loaded" ELSE "failed"
    /\ UNCHANGED <<infile, outfile, prev, runs>>

\* mod_settings = json.load(args.input, cls=JSONDecoder)
LoadJson ==
    /\ pc = "start" /\ infile.ext = "json"
    /\ LET r == Loads(infile.text) IN
       /\ mod_settings' = r.v
       /\ exc' = r.exc
       /\ pc' = IF r.ok THEN "loaded" ELSE "failed"
    /\ UNCHANGED <<infile, outfile, tell, prev, runs>>

\* mod_settings.save(output)
SaveDat ==
    /\ pc = "loaded"
    /\ LET w == Save(mod_settings) IN
       /\ outfile' = DatFile(w.v)
       /\ exc' = w.exc
       /\ pc' = IF w.ok THEN "written" ELSE "failed"
    /\ UNCHANGED <<infile, mod_settings, tell, prev, runs>>

\* json.dump(mod_settings, text_output, indent=4, cls=JSONEncoder)
DumpJson ==
    /\ pc = "loaded"
    /\ LET r == Dumps(mod_settings) IN
       /\ outfile' = JsonFile(r.v)
       /\ exc' = r.exc
       /\ pc' = IF r.ok THEN "written" ELSE "failed"
    /\ UNCHANGED <<infile, mod_settings, tell, prev, runs>>

\* the converter is run again, on the file the last run wrote
Rerun ==
    /\ pc = "written" /\ runs < MaxRuns
    /\ infile' = outfile
    /\ prev' = [infile |-> infile, mod_settings |-> mod_settings]
    /\ mod_settings' = None
    /\ outfile' = None
    /\ tell' = 0
    /\ pc' = "start"
    /\ runs' = runs + 1
    /\ UNCHANGED exc

Next == LoadDat \/ LoadJson \/ SaveDat \/ DumpJson \/ Rerun

Spec == Init /\ [][Next]_vars

(***************************************************************************)
(* Save then load: a ModSettings value built by a caller is saved, and the *)
(* bytes written are loaded again.                                         *)
(***************************************************************************)
Key_null == ImmutableString(None)
Key_empty == ImmutableString(PyBytes(<<>>))
Key_a == ImmutableString(PyBytes(<<97>>))

SaveLeaves ==
    {PropertyTree(None, v[1], v[2], a) :
       v \in {<<None, "Null">>, <<PyBool(TRUE), "Bool">>, <<PyBool(FALSE), "Bool">>,
              <<PyFloat(Float5), "Number">>, <<Key_null, "String">>,
              <<Key_empty, "String">>, <<Key_a, "String">>},
       a \in BOOLEAN}
SaveChildren ==
    SaveLeaves
    \cup {PropertyTree(None, PyList(<<>>), "List", FALSE),
          PropertyTree(None,
             PyList(<<PropertyTree(Key_a, PyBool(TRUE), "Bool", FALSE)>>),
             "Dictionary", TRUE)}
SaveEntries ==
    {[c EXCEPT !.key = Key_a] : c \in SaveChildren}
    \cup {PropertyTree(k, None, "Null", FALSE) : k \in {Key_null, Key_empty}}
SaveRoots ==
    SaveLeaves
    \cup {PropertyTree(None, PyList(items), type, a) :
            items \in SeqsUpTo(SaveEntries, MaxItems),
            type \in {"List", "Dictionary"}, a \in BOOLEAN}
SaveValues ==
    {ModSettings(data, [i \in 1..4 |-> PyInt(v[i])], PyBool(q)) :
       data \in SaveRoots,
       v \in {<<0, 18, 0, 0>>, <<65535, 0, 256, 65535>>},
       q \in BOOLEAN}

InitSave ==
    /\ infile = None
    /\ mod_settings \in SaveValues
    /\ outfile = None
    /\ exc = ""
    /\ tell = 0
    /\ pc = "loaded"
    /\ prev = None
    /\ runs = 1

NextSave == SaveDat \/ Rerun \/ LoadDat

SpecSave == InitSave /\ [][NextSave]_vars

(***************************************************************************)
(* ImmutableString alone: a string is saved to an empty stream and loaded  *)
(* from the bytes written.  prev holds the string, outfile the stream,     *)
(* mod_settings what load returned.                                        *)
(***************************************************************************)
StringValues ==
    {ImmutableString(None)}
    \cup {ImmutableString(PyBytes([i \in 1..n |-> 97])) : n \in 0..MaxStrLen}
    \cup {ImmutableString(PyBytes([i \in 1..n |-> i % 128])) : n \in 0..MaxStrLen}

InitString ==
    /\ infile = None
    /\ mod_settings = None
    /\ outfile = None
    /\ exc = ""
    /\ tell = 0
    /\ pc = "string"
    /\ prev \in StringValues
    /\ runs = 1

\* prev.save(stream)
StringSave ==
    /\ pc = "string"
    /\ outfile' = DatFile(ImmutableString_save(prev))
    /\ pc' = "string_saved"
    /\ UNCHANGED <<infile, mod_settings, exc, tell, prev, runs>>

\* ImmutableString.load(stream), the stream rewound
StringLoad ==
    /\ pc = "string_saved"
    /\ LET r == ImmutableString_load(outfile.bytes, 0) IN
       /\ mod_settings' = r.v
       /\ exc' = r.exc
       /\ tell' = r.pos
       /\ pc' = IF r.ok THEN "string_loaded" ELSE "failed"
    /\ UNCHANGED <<infile, outfile, prev, runs>>

NextString == StringSave \/ StringLoad

SpecString == InitString /\ [][NextString]_vars

(***************************************************************************)
(* The wire grammar of the format, read off a byte string without the      *)
(* decoder:                                                                *)
(*   ModSettings  := u16 u16 u16 u16 u8(has_quality) PropertyTree          *)
(*   PropertyTree := u8(type_tag) u8(any_type) payload                     *)
(*   List/Dict    := u32(count) (VLString(key) PropertyTree)*count         *)
(*   VLString     := u8(is_null) [ u8(len) | 0xFF u32(len) ] bytes(len)    *)
(* A scan says where the item that starts at pos ends (st = "ok"), or that *)
(* the bytes end before it does ("truncated"), or that a type tag is none  *)
(* of 0..5 ("invalid"); canon says that every flag byte met is 0 or 1 and  *)
(* every length is written in the form save chooses for it.                *)
(***************************************************************************)
Scanned(end, canon) == [st |-> "ok", end |-> end, canon |-> canon]
Cut == [st |-> "truncated", end |-> 0, canon |-> FALSE]
BadTag == [st |-> "invalid", end |-> 0, canon |-> FALSE]
AndCanon(r, c) == IF r.st = "ok" THEN Scanned(r.end, r.canon /\ c) ELSE r

WireString(s, pos) ==
    IF pos + 1 > Len(s) THEN Cut
    ELSE IF s[pos + 1] # 0 THEN Scanned(pos + 1, s[pos + 1] = 1)
    ELSE IF pos + 2 > Len(s) THEN Cut
    ELSE IF s[pos + 2] # 255 THEN
        IF pos + 2 + s[pos + 2] > Len(s) THEN Cut
        ELSE Scanned(pos + 2 + s[pos + 2], TRUE)
    ELSE IF pos + 6 > Len(s) THEN Cut
    ELSE LET n == s[pos + 3] + 256 * s[pos + 4] + 65536 * s[pos + 5]
                  + 16777216 * s[pos + 6] IN
         IF pos + 6 + n > Len(s) THEN Cut ELSE Scanned(pos + 6 + n, n >= 255)

RECURSIVE WireNode(_, _)
RECURSIVE WireEntries(_, _, _)
WireEntries(s, pos, count) ==
    IF count = 0 THEN Scanned(pos, TRUE)
    ELSE LET key == WireString(s, pos) IN
         IF key.st # "ok" THEN key
         ELSE LET node == WireNode(s, key.end) IN
              IF node.st # "ok" THEN node
              ELSE AndCanon(WireEntries(s, node.end, count - 1),
                            key.canon /\ node.canon)
WireNode(s, pos) ==
    IF pos + 2 > Len(s) THEN Cut
    ELSE IF s[pos + 1] > 5 THEN BadTag
    ELSE LET tag == s[pos + 1]
             flag == s[pos + 2] \in {0, 1} IN
         CASE tag = 0 -> Scanned(pos + 2, flag)
           [] tag = 1 -> IF pos + 3 > Len(s) THEN Cut
                         ELSE Scanned(pos + 3, flag /\ s[pos + 3] \in {0, 1})
           [] tag = 2 -> IF pos + 10 > Len(s) THEN Cut ELSE Scanned(pos + 10, flag)
           [] tag = 3 -> AndCanon(WireString(s, pos + 2), flag)
           [] tag \in {4, 5} ->
                IF pos + 6 > Len(s) THEN Cut
                ELSE AndCanon(
                       WireEntries(s, pos + 6,
                          s[pos + 3] + 256 * s[pos + 4] + 65536 * s[pos + 5]
                          + 16777216 * s[pos + 6]),
                       flag)
WireDoc(s) ==
    IF Len(s) < 9 THEN Cut ELSE AndCanon(WireNode(s, 9), s[9] \in {0, 1})

\* the version a document declares, and whether it is below (0, 18, 0, 0)
DocVersion(s) ==
    <<s[1] + 256 * s[2], s[3] + 256 * s[4], s[5] + 256 * s[6], s[7] + 256 * s[8]>>
Below_0_18(v) == v[1] = 0 /\ v[2] < 18

\* the load step of this run ended in an exception / returned a value
LoadFailed == pc = "failed" /\ outfile = None
Loaded == pc \in {"loaded", "written"} \/ (pc = "failed" /\ outfile # None)
ReadDat == pc # "start" /\ infile # None /\ infile.ext = "dat"
ReadJson == pc # "start" /\ infile # None /\ infile.ext = "json"

(***************************************************************************)
(* C1.  Binary round trip.                                                 *)
(***************************************************************************)
\* C1 as stated: whenever ModSettings.load accepts the bytes D and the value is
\* saved, the bytes written are exactly D.
C1_RoundTripEveryAccepted ==
    (ReadDat /\ pc = "written" /\ outfile.ext = "dat")
        => outfile.bytes = infile.bytes

\* C1 as amended: whenever ModSettings.load accepts D, and D is canonical (every
\* flag byte is 0 or 1, every string length is in the form save chooses, every
\* declared byte is there and nothing follows the root node), the bytes written
\* by save are exactly D.
C1_RoundTripCanonical ==
    (ReadDat /\ pc = "written" /\ outfile.ext = "dat"
       /\ WireDoc(infile.bytes).st = "ok" /\ WireDoc(infile.bytes).canon
       /\ WireDoc(infile.bytes).end = Len(infile.bytes))
        => outfile.bytes = infile.bytes

\* a canonical document whose root is a Dictionary of one String entry with a
\* key, has_quality set, loaded and saved
C1_Witness ==
    /\ ReadDat /\ pc = "written" /\ outfile.ext = "dat"
    /\ WireDoc(infile.bytes).st = "ok" /\ WireDoc(infile.bytes).canon
    /\ WireDoc(infile.bytes).end = Len(infile.bytes)
    /\ mod_settings.has_quality = PyBool(TRUE)
    /\ mod_settings.data.type = "Dictionary"
    /\ Len(mod_settings.data.value.items) = 1
    /\ mod_settings.data.value.items[1].type = "String"
    /\ mod_settings.data.value.items[1].key = Key_empty

(***************************************************************************)
(* C3.  Version gate of ModSettings.load.                                  *)
(***************************************************************************)
\* C3: a document (a header and a well-formed tree) whose version is below
\* (0, 18, 0, 0) fails to load with the version error, and no document of such
\* a version yields a value; one of version (0, 18, 0, 0) or higher with a
\* well-formed tree loads, with that version.
C3_VersionGate ==
    (ReadDat /\ Len(infile.bytes) >= 9) =>
        LET version == DocVersion(infile.bytes)
            wellformed == WireDoc(infile.bytes).st = "ok" IN
        /\ Below_0_18(version) => LoadFailed /\ mod_settings = None
        /\ (Below_0_18(version) /\ wellformed)
               => exc = "Exception: settings version too low"
        /\ (~Below_0_18(version) /\ wellformed)
               => /\ Loaded
                  /\ mod_settings.cls = "ModSettings"
                  /\ mod_settings.version = [i \in 1..4 |-> PyInt(version[i])]

\* version (0, 17, 99, 0) over a well-formed Dictionary, refused
C3_Witness ==
    /\ ReadDat /\ LoadFailed
    /\ exc = "Exception: settings version too low"
    /\ WireDoc(infile.bytes).st = "ok"
    /\ DocVersion(infile.bytes) = <<0, 17, 99, 0>>
    /\ infile.bytes[10] = 5 /\ infile.bytes[12] = 1

(***************************************************************************)
(* C4.  Truncated input.                                                   *)
(***************************************************************************)
\* C4: whenever the bytes end before a declared length or a fixed-width field
\* is complete, the load returns no value, and (the version being one load
\* supports) fails with the truncation error, struct.error.
C4_TruncatedInputFails ==
    (ReadDat /\ WireDoc(infile.bytes).st = "truncated") =>
        /\ LoadFailed
        /\ (Len(infile.bytes) < 8 \/ ~Below_0_18(DocVersion(infile.bytes)))
              => exc = "struct.error"

(***************************************************************************)
(* C7.  Version of every ModSettings record a decode returns.              *)
(***************************************************************************)
\* C7: every ModSettings record returned by a load, from .dat or from JSON,
\* has a version of (0, 18, 0, 0) or higher.
C7_DecodedVersionSupported ==
    (Loaded /\ mod_settings.cls = "ModSettings"
       /\ \A i \in 1..Len(mod_settings.version) : mod_settings.version[i].cls = "int")
        => ~Below_0_18([i \in 1..Len(mod_settings.version) |->
                           mod_settings.version[i].i])

(***************************************************************************)
(* C5, C8, C9.  JSONDecoder.                                               *)
(***************************************************************************)
\* whether a ModSettings record lies below the top of a decoded value
RECURSIVE HoldsModSettings(_)
HoldsModSettings(x) ==
    CASE x.cls = "ModSettings" -> TRUE
      [] x.cls = "PropertyTree" -> HoldsModSettings(x.value)
      [] x.cls = "list" -> \E i \in 1..Len(x.items) : HoldsModSettings(x.items[i])
      [] OTHER -> FALSE
NestedModSettings(x) ==
    IF x.cls = "ModSettings" THEN HoldsModSettings(x.data) ELSE HoldsModSettings(x)

\* the node a Dictionary entry "!type": "ModSettings" is
TypeEntry ==
    PropertyTree(ImmutableString(PyBytes(<<33, 116, 121, 112, 101>>)),
                 ImmutableString(PyBytes(<<77, 111, 100, 83, 101, 116, 116, 105,
                                           110, 103, 115>>)),
                 "String", FALSE)

\* C5: an object {"!type": "ModSettings"} inside the data of an envelope loads
\* without error as a Dictionary node whose one child is the String
\* "ModSettings" under the key "!type", and no value loaded from an envelope
\* holds a ModSettings record below its top.
C5_NestedDiscriminatorIsEntry ==
    (ReadJson /\ infile.text.cls = "dict" /\ DictHas(infile.text, S_type)) =>
      /\ Loaded => ~NestedModSettings(mod_settings)
      /\ \A v \in Versions, q \in BOOLEAN :
           infile.text = Envelope(v, PyBool(q),
                            PyDict(<< <<Str_a,
                                        PyDict(<< <<S_type, S_ModSettings>> >>)>> >>))
             => /\ Loaded
                /\ mod_settings.cls = "ModSettings"
                /\ mod_settings.data =
                     PropertyTree(None,
                       PyList(<<PropertyTree(Key_a, PyList(<<TypeEntry>>),
                                             "Dictionary", FALSE)>>),
                       "Dictionary", FALSE)

\* whether every child of every List of a decoded value is a PropertyTree node
RECURSIVE ListsHoldNodes(_)
ListsHoldNodes(x) ==
    CASE x.cls = "ModSettings" -> ListsHoldNodes(x.data)
      [] x.cls = "PropertyTree" ->
           IF x.type \in {"List", "Dictionary"}
           THEN \A i \in 1..Len(x.value.items) :
                   /\ x.value.items[i].cls = "PropertyTree"
                   /\ ListsHoldNodes(x.value.items[i])
           ELSE TRUE
      [] OTHER -> TRUE

\* C8: in every value loaded from JSON, the children of a List node are
\* PropertyTree nodes, none a raw JSON value.
C8_ArrayElementsConverted ==
    (ReadJson /\ Loaded) => ListsHoldNodes(mod_settings)

\* the type of the node a JSON scalar is to become
ScalarType(x) ==
    CASE x.cls = "NoneType" -> "Null"
      [] x.cls = "bool" -> "Bool"
      [] x.cls \in {"int", "float"} -> "Number"
      [] x.cls = "str" -> "String"

\* C9: an object {"a": x} with x null, a boolean, a number (5 or 5.0) or a
\* string loads without error, as a Dictionary whose child "a" is a Null, Bool,
\* Number or String node.
C9_ScalarFieldsDecode ==
    ReadJson =>
      \A x \in JScalars :
        infile.text = PyDict(<< <<Str_a, x>> >>)
          => /\ Loaded
             /\ mod_settings.cls = "PropertyTree"
             /\ mod_settings.type = "Dictionary"
             /\ Len(mod_settings.value.items) = 1
             /\ mod_settings.value.items[1].cls = "PropertyTree"
             /\ mod_settings.value.items[1].key = Key_a
             /\ mod_settings.value.items[1].type = ScalarType(x)

(***************************************************************************)
(* C2.  Textual round trip.                                                *)
(***************************************************************************)
\* equality of two values, the payloads of Number nodes left out of it
RECURSIVE SameButNumbers(_, _)
SameButNumbers(x, y) ==
    IF x.cls # y.cls THEN FALSE
    ELSE CASE x.cls = "ModSettings" ->
                /\ x.version = y.version /\ x.has_quality = y.has_quality
                /\ SameButNumbers(x.data, y.data)
           [] x.cls = "PropertyTree" ->
                /\ x.key = y.key /\ x.type = y.type /\ x.any_type = y.any_type
                /\ CASE x.type = "Number" -> TRUE
                     [] x.type \in {"List", "Dictionary"} ->
                          /\ Len(x.value.items) = Len(y.value.items)
                          /\ \A i \in 1..Len(x.value.items) :
                               SameButNumbers(x.value.items[i], y.value.items[i])
                     [] OTHER -> x.value = y.value
           [] OTHER -> x = y

\* C2: when a value V loaded from .dat is written as JSON and that JSON is
\* loaded, the load succeeds and returns a value equal to V, Number payloads
\* apart.
C2_TextualRoundTrip ==
    (ReadJson /\ prev # None /\ prev.infile.ext = "dat")
        => Loaded /\ SameButNumbers(mod_settings, prev.mod_settings)

(***************************************************************************)
(* C6.  Length forms of ImmutableString.save.                              *)
(***************************************************************************)
\* C6: a present string of n bytes is written as 00, then n in one byte if
\* n < 255 and FF with n in four little-endian bytes if n >= 255, then its
\* bytes; load of what was written returns the string and reads all of it.
C6_LengthEscapeBoundary ==
    (pc \in {"string_saved", "string_loaded", "failed"} /\ prev.value # None) =>
        LET value == prev.value.bs
            n == Len(value)
            out == outfile.bytes IN
        /\ n < 255 => out = <<0, n>> \o value
        /\ n >= 255 => out = <<0, 255, n % 256, n \div 256, 0, 0>> \o value
        /\ pc # "string_saved"
             => pc = "string_loaded" /\ mod_settings = prev /\ tell = Len(out)

\* the strings of 254, 255 and 256 bytes have each been saved and loaded
C6_Witness ==
    /\ pc = "string_loaded" /\ prev.value # None
    /\ Len(prev.value.bs) = 255
    /\ Len(outfile.bytes) = 261

(***************************************************************************)
(* C10.  Save, then load.                                                  *)
(***************************************************************************)
\* what C10 asks of V: a supported version of four 16-bit components, a bool
\* has_quality, a root without a key, every payload of the kind of its type
ValidString(x) == x.cls = "ImmutableString" /\ x.value.cls \in {"NoneType", "bytes"}
RECURSIVE ValidTree(_)
ValidTree(x) ==
    /\ x.cls = "PropertyTree" /\ ValidString(x.key)
    /\ CASE x.type = "Null" -> x.value = None
         [] x.type = "Bool" -> x.value.cls = "bool"
         [] x.type = "Number" -> x.value.cls = "float"
         [] x.type = "String" -> ValidString(x.value)
         [] x.type \in {"List", "Dictionary"} ->
              /\ x.value.cls = "list"
              /\ \A i \in 1..Len(x.value.items) : ValidTree(x.value.items[i])
ValidModSettings(x) ==
    /\ x.cls = "ModSettings"
    /\ Len(x.version) = 4
    /\ \A i \in 1..4 : x.version[i].cls = "int" /\ x.version[i].i \in 0..65535
    /\ ~Below_0_18([i \in 1..4 |-> x.version[i].i])
    /\ x.has_quality.cls = "bool"
    /\ ValidTree(x.data) /\ x.data.key = Key_null

\* C10: the save of such a V succeeds, and ModSettings.load of the bytes it
\* wrote returns a value equal to V and ends at the last byte written.
C10_SaveThenLoad ==
    /\ (pc = "failed" /\ outfile # None /\ outfile.ext = "dat")
          => ~ValidModSettings(mod_settings)
    /\ (ReadDat /\ prev # None /\ ValidModSettings(prev.mod_settings))
          => /\ Loaded
             /\ mod_settings = prev.mod_settings
             /\ tell = Len(infile.bytes)

\* a Dictionary of two entries, the first under the empty key and the second a
\* null String under "a", has_quality set, saved and loaded
C10_Witness ==
    /\ ReadDat /\ Loaded /\ prev # None /\ ValidModSettings(prev.mod_settings)
    /\ mod_settings.has_quality = PyBool(TRUE)
    /\ mod_settings.data.type = "Dictionary" /\ mod_settings.data.any_type
    /\ Len(mod_settings.data.value.items) = 2
    /\ mod_settings.data.value.items[1].key = Key_empty
    /\ mod_settings.data.value.items[2].key = Key_a
    /\ mod_settings.data.value.items[2].type = "String"
    /\ mod_settings.data.value.items[2].value = Key_null

=============================================================================
